---------------------------- MODULE Spec2Model ----------------------------
(***************************************************************************)
(* A model of stevoku: the Cell/Grid data model of puzzle.py, the          *)
(* arc-consistency propagator and the backtracking search of csp.py, and   *)
(* the puzzle generator of puzzle.py.                                      *)
(*                                                                         *)
(* The specifications share the variables:                                 *)
(*   SpecGrid      calls of Grid.insertCellAt on a new grid                *)
(*   SpecBlockAt   calls of Grid.blockAt                                   *)
(*   SpecFix       fixArcConsistency, one loop iteration per step, then    *)
(*                 unfixArcConsistency of its diff or a second call        *)
(*   SpecFixFair   the same loop, an iteration that can be taken is taken  *)
(*   Spec          solve() on a grid built by parsePuzzleFile, one step    *)
(*                 per entry, commit, return and exhaustion of _recSolve   *)
(*   SpecSolveFair solve() run to its return                               *)
(*   SpecGen       generatePuzzle and the complicatePuzzle loop            *)
(*                                                                         *)
(* Python values: None is modelled by the number -1 (cell values are       *)
(* 0..Base-1), a set of Cell objects by a set of cell identities, a deque  *)
(* or list by a sequence, a dict from Cell to list by a function that      *)
(* maps the absent keys to the empty sequence (the code creates a key only *)
(* when it appends to it).                                                 *)
(***************************************************************************)
EXTENDS Integers, Sequences, FiniteSets, TLC

\* The side length of the grid: the smallest supported base.
Base == 4

\* Python's None, for Cell.value and for the group references of a cell
\* that has not been inserted.
None == -1

\* int(sqrt(self.base))
BlockBase == CHOOSE b \in 1..Base : b * b = Base

Val == 0..(Base - 1)
Index == 0..(Base - 1)

\* The Cell objects.  A grid built by parsePuzzleFile or generatePuzzle
\* holds one Cell per address; the Cell inserted at (row, col) has the
\* identity row*Base + col.
Cell == 0..(Base * Base - 1)

VARIABLES
    rows, columns, blocks,          \* Grid.rows, Grid.columns, Grid.blocks
    cellRow, cellColumn, cellBlock, \* Cell.row, Cell.column, Cell.block: the
                                    \* index of the group referred to, or None
    domain, value, given,           \* Cell.domain, Cell.value, Cell.given
    dirtyCells,                     \* Grid.dirtyCells
    setOrder,                       \* the iteration order of a set of Cells
    pc,                             \* the position of the program
    complete,                       \* the argument of solve
    stack,                          \* the active frames of _recSolve
    retval,                         \* the value returned by the last return
    seedVal,                        \* generatePuzzle: the next value to seed
    diff,                           \* the diff of the running or last
                                    \* fixArcConsistency of SpecFix / SpecGen
    entry,                          \* a snapshot of the cells taken when the
                                    \* operation under study was called
    lastCall                        \* the last call made on the grid and how
                                    \* it ended

wiring == <<rows, columns, blocks, cellRow, cellColumn, cellBlock>>
cellState == <<domain, value, given>>
search == <<pc, complete, stack, retval, seedVal>>
vars == <<rows, columns, blocks, cellRow, cellColumn, cellBlock, domain,
          value, given, dirtyCells, setOrder, pc, complete, stack, retval,
          seedVal, diff, entry, lastCall>>

----------------------------------------------------------------------------
(* Sequences and sets *)

Range(s) == {s[i] : i \in DOMAIN s}

\* The elements of a set of small integers in the order Python iterates
\* them: ascending (hash(i) = i, one slot per value).
AscSeq(S) ==
    [i \in 1..Cardinality(S) |->
        CHOOSE v \in S : Cardinality({w \in S : w < v}) = i - 1]

\* The elements of a set of Cell objects in the order Python iterates
\* them.  The order is that of the objects' hashes (their addresses); it is
\* fixed for a run and unknown to the program: setOrder[c] is the rank of c.
OrderedCells(S) ==
    [i \in 1..Cardinality(S) |->
        CHOOSE c \in S :
            Cardinality({x \in S : setOrder[x] < setOrder[c]}) = i - 1]

\* lst[i] of a Python list of length n: a negative index counts from the
\* end, anything outside [-n, n) raises IndexError (None here).
PyIndex(i, n) ==
    IF 0 <= i /\ i < n THEN i
    ELSE IF -n <= i /\ i < 0 THEN i + n
    ELSE None

----------------------------------------------------------------------------
(* puzzle.py: Cell and Grid *)

\* Cell.__init__: the domain of a new cell.
NewDomain(v) == IF v # None THEN {v} ELSE Val

\* Grid.blockAt(row, column): the index of the block returned, or the
\* exception raised.  Python 2 divides integers by flooring.
blockAt(row, column) ==
    LET blockRow == row \div BlockBase
        blockCol == column \div BlockBase
        idx      == PyIndex(BlockBase * blockRow + blockCol, Base)
    IN  IF row < Base /\ column < Base
        THEN IF idx # None
             THEN [raised |-> "", block |-> idx]
             ELSE [raised |-> "IndexError", block |-> None]
        ELSE [raised |-> "IndexError", block |-> None]

\* Grid.cellAt(row, column): the intersection of the two groups.  The code
\* returns list(intersect)[0], the first cell in iteration order, or None.
cellAt(row, column) ==
    LET intersect == rows[row] \cap columns[column]
    IN  IF intersect # {} THEN OrderedCells(intersect)[1] ELSE None

\* Grid.unsolvedCells, for given values of the cells.
unsolvedCells(val) ==
    LET totalSet  == UNION {rows[r] : r \in Index}
        solvedSet == {c \in totalSet : val[c] # None}
    IN  totalSet \ solvedSet

\* dirty.row | dirty.column | dirty.block, minus the dirty cell itself.
Peers(d) ==
    (rows[cellRow[d]] \cup columns[cellColumn[d]] \cup blocks[cellBlock[d]])
        \ {d}

\* The wiring of a fully populated grid: cell r*Base+c inserted at (r, c).
RowOf(c) == c \div Base
ColOf(c) == c % Base
BlockOf(c) == blockAt(RowOf(c), ColOf(c)).block
FullRows == [r \in Index |-> {c \in Cell : RowOf(c) = r}]
FullColumns == [k \in Index |-> {c \in Cell : ColOf(c) = k}]
FullBlocks == [b \in Index |-> {c \in Cell : BlockOf(c) = b}]

----------------------------------------------------------------------------
(* csp.py: fixArcConsistency and unfixArcConsistency *)

EmptyDiff == [c \in Cell |-> <<>>]

\* A variant of Forced that holds of every value the dirty cell may take.
ForcedByMember(dirtyDomain, v1) == v1 \in dirtyDomain

\* The test of csp.py line 23: excluding v1 leaves the dirty cell no value.
Forced(dirtyDomain, v1) == dirtyDomain \ {v1} = {}

\* The values one loop iteration removes from the peer `cell` of `dirty`.
\* The dirty cell is not among its own peers, so its domain is the same at
\* every test of the iteration.
Removals(dom, dirty, cell) == {v1 \in dom[cell] : Forced(dom[dirty], v1)}

\* The peers, in the order they are visited, that lose a value.
Changed(dom, dirty, peers) ==
    SelectSeq(peers, LAMBDA c : Removals(dom, dirty, c) # {})

\* The queue after the peers of one iteration were handled: a peer that
\* lost a value is appended unless it is already pending.
Enqueue(queue, changed) ==
    queue \o SelectSeq(changed, LAMBDA c : c \notin Range(queue))

\* A variant of Popped that leaves the head in the queue.
PoppedNothing(queue) == queue

\* The queue after dirtyCells.popleft() (line 14) took its head.
Popped(queue) == Tail(queue)

\* A variant of FixIteration that removes the values but records nothing in
\* the diff.
FixIterationUnrecorded(f) ==
    LET dirty   == Head(f.dirtyCells)
        peers   == Peers(dirty)
        changed == Changed(f.domain, dirty, OrderedCells(peers))
    IN  [domain |->
            [c \in Cell |->
                IF c \in peers
                THEN f.domain[c] \ Removals(f.domain, dirty, c)
                ELSE f.domain[c]],
         dirtyCells |-> Enqueue(Popped(f.dirtyCells), changed),
         diff |-> f.diff]

\* One iteration of the while loop of fixArcConsistency (lines 14-33) on
\* f = [domain, dirtyCells, diff]: the head of the queue is popped and
\* every peer is checked against it.
FixIteration(f) ==
    LET dirty   == Head(f.dirtyCells)
        rest    == Popped(f.dirtyCells)
        peers   == Peers(dirty)
        changed == Changed(f.domain, dirty, OrderedCells(peers))
    IN  [domain |->
            [c \in Cell |->
                IF c \in peers
                THEN f.domain[c] \ Removals(f.domain, dirty, c)
                ELSE f.domain[c]],
         dirtyCells |-> Enqueue(rest, changed),
         diff |->
            [c \in Cell |->
                IF c \in peers
                THEN f.diff[c] \o AscSeq(Removals(f.domain, dirty, c))
                ELSE f.diff[c]]]

\* The while loop of fixArcConsistency, run until the queue is empty.
RECURSIVE FixLoop(_)
FixLoop(f) ==
    IF Len(f.dirtyCells) # 0 THEN FixLoop(FixIteration(f)) ELSE f

\* fixArcConsistency(grid) as one call: the domains and the (empty) queue
\* it leaves, and the diff it returns.
fixArcConsistency(dom, queue) ==
    FixLoop([domain |-> dom, dirtyCells |-> queue, diff |-> EmptyDiff])

\* A variant of unfixArcConsistency that assigns the recorded values in
\* place of adding them.
unfixAssigning(dom, df) ==
    [c \in Cell |-> IF df[c] = <<>> THEN dom[c] ELSE Range(df[c])]

\* unfixArcConsistency(diff): cell.domain |= set(vals).
unfixArcConsistency(dom, df) ==
    [c \in Cell |-> dom[c] \cup Range(df[c])]

\* The cost the value-ordering probe reads off a diff (lines 75-77).
RECURSIVE SumLen(_, _)
SumLen(df, S) ==
    IF S = {} THEN 0
    ELSE LET c == CHOOSE x \in S : TRUE
         IN  Len(df[c]) + SumLen(df, S \ {c})
DiffCount(df) == SumLen(df, Cell)

----------------------------------------------------------------------------
(* csp.py: solve and _recSolve *)

\* The values _recSolve returns: None, the grid object itself, or (in
\* complete mode) the list ret, whose entries are the values returned by
\* the recursive calls.
NoneRet == [kind |-> "None", items |-> <<>>]
GridRet == [kind |-> "Grid", items |-> <<>>]
ListRet(items) == [kind |-> "List", items |-> items]

\* A variant of MostConstrained that looks for the least domain among all
\* cells of the grid, solved ones included.
MostConstrainedOfAll(dom, remainingCells) ==
    LET least == {c \in Cell :
                    \A x \in Cell : Cardinality(dom[c]) <= Cardinality(dom[x])}
    IN  OrderedCells(least)[1]

\* min(remainingCells, key = len(domain)): the first cell, in iteration
\* order, among those of least domain size.
MostConstrained(dom, remainingCells) ==
    LET least == {c \in remainingCells :
                    \A x \in remainingCells :
                        Cardinality(dom[c]) <= Cardinality(dom[x])}
    IN  OrderedCells(least)[1]

\* The probe of lines 72-79: for every value of the domain, a propagation
\* pass on the grid as it is and its reversal; the pass's removals are the
\* value's cost.  The chosen value is not committed before the pass.
RECURSIVE Probe(_, _, _, _)
Probe(dom, queue, values, expenseList) ==
    IF values = <<>>
    THEN [domain |-> dom, dirtyCells |-> queue, expenseList |-> expenseList]
    ELSE LET f == fixArcConsistency(dom, queue)
         IN  Probe(unfixArcConsistency(f.domain, f.diff), f.dirtyCells,
                   Tail(values),
                   Append(expenseList,
                          [testVal |-> Head(values),
                           counter |-> DiffCount(f.diff)]))

\* expenseList.sort(key = cost), a stable sort, and the list of its values.
CheckList(expenseList) ==
    LET n == Len(expenseList)
        before(j, k) ==
            \/ expenseList[j].counter < expenseList[k].counter
            \/ expenseList[j].counter = expenseList[k].counter /\ j < k
        at(i) == CHOOSE k \in 1..n :
                    Cardinality({j \in 1..n : before(j, k)}) = i - 1
    IN  [i \in 1..n |-> expenseList[at(i)].testVal]

\* A variant of SolveCall that enters _recSolve without the initial
\* propagation.
SolveCallUnpropagated(m) == [m EXCEPT !.pc = "enter"]

\* solve, line 50: the initial propagation; then _recSolve is entered.
SolveCall(m) ==
    LET f == fixArcConsistency(m.domain, m.dirtyCells)
    IN  [m EXCEPT !.domain = f.domain, !.dirtyCells = f.dirtyCells,
                  !.pc = "enter"]

\* _recSolve, lines 56-81: a solved grid is returned, a cell without values
\* returns None, otherwise a frame is set up with the ordered candidates.
\* The frame also remembers, for the properties stated of it, the grid as
\* the step found it (entryDomain, entryValue) and the domains with which
\* the loop over the candidates starts at line 84 (firstDomain).
RecEnter(m) ==
    LET remainingCells == unsolvedCells(m.value)
        cell           == MostConstrained(m.domain, remainingCells)
        origDomain     == m.domain[cell]
        probe          == Probe(m.domain, m.dirtyCells, AscSeq(origDomain),
                                <<>>)
    IN  IF Cardinality(remainingCells) = 0
        THEN [m EXCEPT !.retval = GridRet, !.pc = "return"]
        ELSE IF Cardinality(origDomain) = 0
        THEN [m EXCEPT !.retval = NoneRet, !.pc = "return"]
        ELSE [m EXCEPT
                !.domain = probe.domain,
                !.dirtyCells = probe.dirtyCells,
                !.stack = Append(m.stack,
                    [cell |-> cell,
                     origDomain |-> origDomain,
                     checkList |-> CheckList(probe.expenseList),
                     next |-> 1,
                     diff |-> EmptyDiff,
                     ret |-> <<>>,
                     entryDomain |-> m.domain,
                     entryValue |-> m.value,
                     firstDomain |-> probe.domain]),
                !.pc = "loop"]

\* A variant of Guess that leaves the domain of the cell as it is.
GuessKeepingDomain(m, cell, testVal) ==
    fixArcConsistency(m.domain, Append(m.dirtyCells, cell))

\* The guess of lines 87-90: the next candidate is committed, the cell is
\* appended to the queue and the grid rebalanced; line 93 then calls
\* _recSolve.
Guess(m, cell, testVal) ==
    fixArcConsistency([m.domain EXCEPT ![cell] = {testVal}],
                      Append(m.dirtyCells, cell))

\* A variant of RecCommit that propagates the guess without setting the
\* value of the cell.
RecCommitUnset(m) ==
    LET top == m.stack[Len(m.stack)]
        f   == Guess(m, top.cell, top.checkList[top.next])
    IN  [m EXCEPT
            !.domain = f.domain,
            !.dirtyCells = f.dirtyCells,
            !.stack = [m.stack EXCEPT ![Len(m.stack)].diff = f.diff],
            !.pc = "enter"]

\* Lines 87-93: the candidate is committed and _recSolve is called.
RecCommit(m) ==
    LET top     == m.stack[Len(m.stack)]
        testVal == top.checkList[top.next]
        f       == Guess(m, top.cell, testVal)
    IN  [m EXCEPT
            !.value = [m.value EXCEPT ![top.cell] = testVal],
            !.domain = f.domain,
            !.dirtyCells = f.dirtyCells,
            !.stack = [m.stack EXCEPT ![Len(m.stack)].diff = f.diff],
            !.pc = "enter"]

\* Lines 96-104, after the recursive call returned `consequence`.
\* Any value other than None (an empty list too) counts as a solution: in
\* complete mode it is appended to ret, in single mode it is returned; the
\* diff is rolled back only in the else branch.
RecReturn(m) ==
    LET n           == Len(m.stack)
        top         == m.stack[n]
        consequence == m.retval
    IN  IF consequence # NoneRet
        THEN IF m.complete
             THEN [m EXCEPT
                     !.stack = [m.stack EXCEPT
                                  ![n].ret = Append(top.ret, consequence),
                                  ![n].next = top.next + 1],
                     !.pc = "loop"]
             ELSE [m EXCEPT
                     !.stack = SubSeq(m.stack, 1, n - 1),
                     !.retval = consequence,
                     !.pc = "return"]
        ELSE [m EXCEPT
                !.domain = unfixArcConsistency(m.domain, top.diff),
                !.stack = [m.stack EXCEPT ![n].next = top.next + 1],
                !.pc = "loop"]

\* A variant of RecExhaust that unsets the cell and leaves it the domain
\* of its last candidate.
RecExhaustKeepingDomain(m) ==
    LET n   == Len(m.stack)
        top == m.stack[n]
    IN  [m EXCEPT
            !.value = [m.value EXCEPT ![top.cell] = None],
            !.stack = SubSeq(m.stack, 1, n - 1),
            !.retval = IF m.complete THEN ListRet(top.ret) ELSE NoneRet,
            !.pc = "return"]

\* Lines 108-113, after the last candidate: the cell is reset and the
\* frame returns ret (complete mode) or None.
RecExhaust(m) ==
    LET n   == Len(m.stack)
        top == m.stack[n]
    IN  [m EXCEPT
            !.value = [m.value EXCEPT ![top.cell] = None],
            !.domain = [m.domain EXCEPT ![top.cell] = top.origDomain],
            !.stack = SubSeq(m.stack, 1, n - 1),
            !.retval = IF m.complete THEN ListRet(top.ret) ELSE NoneRet,
            !.pc = "return"]

\* Line 51: the outermost _recSolve returned, and so does solve.
SolveReturn(m) == [m EXCEPT !.pc = "done"]

\* The step the search takes next, by its position.
SearchStep(m) ==
    CASE m.pc = "solve" -> SolveCall(m)
      [] m.pc = "enter" -> RecEnter(m)
      [] m.pc = "loop" /\ m.stack[Len(m.stack)].next
                            <= Len(m.stack[Len(m.stack)].checkList)
                        -> RecCommit(m)
      [] m.pc = "loop" /\ m.stack[Len(m.stack)].next
                            > Len(m.stack[Len(m.stack)].checkList)
                        -> RecExhaust(m)
      [] m.pc = "return" /\ m.stack # <<>> -> RecReturn(m)
      [] m.pc = "return" /\ m.stack = <<>> -> SolveReturn(m)

\* solve(grid, complete) run to its return.
RECURSIVE RunSearch(_)
RunSearch(m) == IF m.pc = "done" THEN m ELSE RunSearch(SearchStep(m))

solve(dom, val, queue, cmpl) ==
    RunSearch([domain |-> dom, value |-> val, dirtyCells |-> queue,
               stack |-> <<>>, retval |-> NoneRet, complete |-> cmpl,
               pc |-> "solve"])

----------------------------------------------------------------------------
(* The grids the specifications start from *)

\* Bounds of the inputs: a parsed grid has at most MaxGivens given cells
\* with any values, or it is a solved grid with at most MaxBlanks cells
\* blanked and at most MaxAltered of the others given a different value,
\* or it is one of the unsolvable three-given grids of BoxedFiles.
MaxGivens == 2
MaxBlanks == 1
MaxAltered == 1

\* The iteration orders of a set of Cells the model tries: by ascending and
\* by descending address.
SetOrders ==
    {[c \in Cell |-> c], [c \in Cell |-> Base * Base - 1 - c]}

\* A solved grid, as a puzzle file holds it.
SolvedGrid ==
    [c \in Cell |->
        (BlockBase * (RowOf(c) % BlockBase) + RowOf(c) \div BlockBase
            + ColOf(c)) % Base]

CellSets(n) == {S \in SUBSET Cell : Cardinality(S) <= n}

SparseFiles ==
    UNION {{[c \in Cell |-> IF c \in G THEN f[c] ELSE None] :
                f \in [G -> Val]} : G \in CellSets(MaxGivens)}

DenseFiles ==
    UNION {{[c \in Cell |->
                IF c \in B THEN None
                ELSE IF c \in A THEN (SolvedGrid[c] + 1) % Base
                ELSE SolvedGrid[c]] :
                A \in {X \in CellSets(MaxAltered) : X \cap B = {}}} :
           B \in CellSets(MaxBlanks)}

\* Files whose givens do not clash yet leave the first block no place for
\* the value b: a at (0,0), b in the second row and in the second column
\* outside the block.  No propagation sees it, so the search must fail.
BoxedFiles ==
    {[c \in Cell |->
        IF c = 0 THEN a
        ELSE IF c \in {Base + BlockBase, BlockBase * Base + 1} THEN b
        ELSE None] :
        <<a, b>> \in {p \in Val \X Val : p[1] # p[2]}}

\* The content of a puzzle file: per address a value, or None for a blank.
PuzzleFiles == SparseFiles \cup DenseFiles \cup BoxedFiles

\* parsePuzzleFile: a new Cell per address, given iff the file holds a
\* value there, inserted in row-major order with insertCellAt, which wires
\* it to its groups and appends it to dirtyCells when it has a value.
Parsed(file) ==
    /\ rows = FullRows
    /\ columns = FullColumns
    /\ blocks = FullBlocks
    /\ cellRow = [c \in Cell |-> RowOf(c)]
    /\ cellColumn = [c \in Cell |-> ColOf(c)]
    /\ cellBlock = [c \in Cell |-> BlockOf(c)]
    /\ value = file
    /\ given = [c \in Cell |-> file[c] # None]
    /\ domain = [c \in Cell |-> NewDomain(file[c])]
    /\ dirtyCells = AscSeq({c \in Cell : file[c] # None})

NoCall == [op |-> "", cell |-> None, row |-> None, column |-> None,
           raised |-> "", block |-> None]

----------------------------------------------------------------------------
(* Spec: solve(grid, complete) on a parsed grid *)

Mach ==
    [domain |-> domain, value |-> value, dirtyCells |-> dirtyCells,
     stack |-> stack, retval |-> retval, complete |-> complete, pc |-> pc]

SetMach(m) ==
    /\ domain' = m.domain
    /\ value' = m.value
    /\ dirtyCells' = m.dirtyCells
    /\ stack' = m.stack
    /\ retval' = m.retval
    /\ complete' = m.complete
    /\ pc' = m.pc

Init ==
    /\ \E file \in PuzzleFiles : Parsed(file)
    /\ setOrder \in SetOrders
    /\ complete \in BOOLEAN
    /\ pc = "solve"
    /\ stack = <<>>
    /\ retval = NoneRet
    /\ seedVal = 0
    /\ diff = EmptyDiff
    /\ entry = [domain |-> domain, value |-> value, given |-> given]
    /\ lastCall = NoCall

frame == <<wiring, given, setOrder, seedVal, diff, entry, lastCall>>

DoSolveCall ==
    /\ pc = "solve"
    /\ SetMach(SolveCall(Mach))
    /\ UNCHANGED frame

DoRecEnter ==
    /\ pc = "enter"
    /\ SetMach(RecEnter(Mach))
    /\ UNCHANGED frame

DoRecCommit ==
    /\ pc = "loop"
    /\ stack[Len(stack)].next <= Len(stack[Len(stack)].checkList)
    /\ SetMach(RecCommit(Mach))
    /\ UNCHANGED frame

DoRecExhaust ==
    /\ pc = "loop"
    /\ stack[Len(stack)].next > Len(stack[Len(stack)].checkList)
    /\ SetMach(RecExhaust(Mach))
    /\ UNCHANGED frame

DoRecReturn ==
    /\ pc = "return"
    /\ stack # <<>>
    /\ SetMach(RecReturn(Mach))
    /\ UNCHANGED frame

DoSolveReturn ==
    /\ pc = "return"
    /\ stack = <<>>
    /\ SetMach(SolveReturn(Mach))
    /\ UNCHANGED frame

Next ==
    \/ DoSolveCall
    \/ DoRecEnter
    \/ DoRecCommit
    \/ DoRecExhaust
    \/ DoRecReturn
    \/ DoSolveReturn

Spec == Init /\ [][Next]_vars

\* solve run as the sequential program it is: a step that can be taken is
\* taken.  The grids are those of PuzzleFiles that are empty or give the
\* cell at (0,0) a value.
CornerFiles ==
    {file \in PuzzleFiles : file[0] # None \/ \A c \in Cell : file[c] = None}

InitCorner ==
    /\ \E file \in CornerFiles : Parsed(file)
    /\ setOrder \in SetOrders
    /\ complete \in BOOLEAN
    /\ pc = "solve"
    /\ stack = <<>>
    /\ retval = NoneRet
    /\ seedVal = 0
    /\ diff = EmptyDiff
    /\ entry = [domain |-> domain, value |-> value, given |-> given]
    /\ lastCall = NoCall

\* Weak fairness of Next, WF_vars(Next), with ENABLED <<Next>>_vars written
\* out: a step of Next is possible exactly when solve has not returned.
NextFair == []<>(pc = "done") \/ []<><<Next>>_vars

SpecSolveFair == InitCorner /\ [][Next]_vars /\ NextFair

----------------------------------------------------------------------------
(* SpecGrid: Grid.insertCellAt and Grid.blockAt on a new Grid *)

\* Bounds: the Cell objects the caller holds, the insertions that take
\* effect, and how far outside [0, Base) the coordinates it passes lie.
NumCells == 2
MaxInserts == 2
Overshoot == 1

HeldCells == 0..(NumCells - 1)
Coord == (-Base - Overshoot)..(Base - 1 + Overshoot)

Inserted == UNION {rows[r] : r \in Index}
InsertCount ==
    LET RECURSIVE Sum(_)
        Sum(r) == IF r = Base THEN 0 ELSE Cardinality(rows[r]) + Sum(r + 1)
    IN  Sum(0)

\* Grid.__init__, and Cell.__init__ of the cells the caller holds: each is
\* blank or holds the value 0.
InitGrid ==
    /\ rows = [r \in Index |-> {}]
    /\ columns = [r \in Index |-> {}]
    /\ blocks = [r \in Index |-> {}]
    /\ cellRow = [c \in Cell |-> None]
    /\ cellColumn = [c \in Cell |-> None]
    /\ cellBlock = [c \in Cell |-> None]
    /\ \E v \in [HeldCells -> {None, 0}] :
          /\ value = [c \in Cell |-> IF c \in HeldCells THEN v[c] ELSE None]
          /\ domain = [c \in Cell |->
                          NewDomain(IF c \in HeldCells THEN v[c] ELSE None)]
    /\ given \in [Cell -> {FALSE}]
    /\ dirtyCells = <<>>
    /\ setOrder = [c \in Cell |-> c]
    /\ complete = FALSE
    /\ pc = "grid"
    /\ stack = <<>>
    /\ retval = NoneRet
    /\ seedVal = 0
    /\ diff = EmptyDiff
    /\ entry = [domain |-> domain, value |-> value, given |-> given]
    /\ lastCall = NoCall

\* The guard of insertCellAt, line 92: the cell itself is in none of the
\* three groups.
CanInsert(cell, row, column, block) ==
    /\ cell \notin columns[column]
    /\ cell \notin rows[row]
    /\ cell \notin blocks[block]

\* Grid.insertCellAt(cell, row, column).  blockAt or the indexing of
\* columns and rows may raise; otherwise r, k, b are the groups Python's
\* indexing selects.
InsertCellAt(cell, row, column) ==
    LET at == blockAt(row, column)
        k  == PyIndex(column, Base)
        r  == PyIndex(row, Base)
        b  == at.block
        call == [NoCall EXCEPT !.op = "insertCellAt"]
    IN  /\ pc = "grid"
        /\ InsertCount < MaxInserts
        /\ IF at.raised # "" \/ k = None \/ (cell \notin columns[k] /\ r = None)
           THEN /\ lastCall' = [call EXCEPT !.raised = "IndexError"]
                /\ UNCHANGED <<wiring, dirtyCells>>
           ELSE IF CanInsert(cell, r, k, b)
           THEN /\ columns' = [columns EXCEPT ![k] = @ \cup {cell}]
                /\ rows' = [rows EXCEPT ![r] = @ \cup {cell}]
                /\ blocks' = [blocks EXCEPT ![b] = @ \cup {cell}]
                /\ cellRow' = [cellRow EXCEPT ![cell] = r]
                /\ cellColumn' = [cellColumn EXCEPT ![cell] = k]
                /\ cellBlock' = [cellBlock EXCEPT ![cell] = b]
                /\ dirtyCells' = IF value[cell] # None
                                 THEN Append(dirtyCells, cell)
                                 ELSE dirtyCells
                /\ lastCall' = call
           ELSE /\ lastCall' = call
                /\ UNCHANGED <<wiring, dirtyCells>>
        /\ UNCHANGED <<cellState, setOrder, search, diff, entry>>

NextGrid ==
    \E cell \in HeldCells, row \in Coord, column \in Coord :
        InsertCellAt(cell, row, column)

SpecGrid == InitGrid /\ [][NextGrid]_vars

\* SpecBlockAt: calls of Grid.blockAt(row, column) on a new Grid, each
\* recorded with its outcome.
BlockAt(row, column) ==
    LET at == blockAt(row, column)
    IN  /\ pc = "grid"
        /\ lastCall' = [op |-> "blockAt", cell |-> None, row |-> row,
                        column |-> column, raised |-> at.raised,
                        block |-> at.block]
        /\ UNCHANGED <<wiring, cellState, dirtyCells, setOrder, search, diff,
                       entry>>

NextBlockAt == \E row \in Coord, column \in Coord : BlockAt(row, column)

SpecBlockAt == InitGrid /\ [][NextBlockAt]_vars

----------------------------------------------------------------------------
(* SpecFix: one fixArcConsistency(grid) call, an iteration of its loop per
   step, and unfixArcConsistency of the diff it returned *)

\* Bound: the cells the caller appends to dirtyCells on top of those the
\* parser enqueued.  Like every append in the source, it is of a cell that
\* holds a value; the cell may be pending already.
MaxAppends == 1

NumGivens == Cardinality({c \in Cell : given[c]})

InitFix ==
    /\ \E file \in PuzzleFiles : Parsed(file)
    /\ setOrder \in SetOrders
    /\ complete = FALSE
    /\ pc = "caller"
    /\ stack = <<>>
    /\ retval = NoneRet
    /\ seedVal = 0
    /\ diff = EmptyDiff
    /\ entry = [domain |-> domain, value |-> value, given |-> given]
    /\ lastCall = NoCall

\* grid.dirtyCells.append(cell), as the callers of fixArcConsistency do.
CallerAppend(cell) ==
    /\ pc = "caller"
    /\ value[cell] # None
    /\ Len(dirtyCells) < NumGivens + MaxAppends
    /\ dirtyCells' = Append(dirtyCells, cell)
    /\ UNCHANGED <<wiring, cellState, setOrder, search, diff, entry, lastCall>>

\* fixArcConsistency is called: diff = {}.
FixCall ==
    /\ pc = "caller"
    /\ pc' = "fix"
    /\ diff' = EmptyDiff
    /\ entry' = [domain |-> domain, value |-> value, given |-> given]
    /\ UNCHANGED <<wiring, cellState, dirtyCells, setOrder, complete, stack,
                   retval, seedVal, lastCall>>

\* One iteration of the while loop.
FixStep ==
    /\ pc = "fix"
    /\ Len(dirtyCells) # 0
    /\ LET f == FixIteration([domain |-> domain, dirtyCells |-> dirtyCells,
                              diff |-> diff])
       IN  /\ domain' = f.domain
           /\ dirtyCells' = f.dirtyCells
           /\ diff' = f.diff
    /\ UNCHANGED <<wiring, value, given, setOrder, search, entry, lastCall>>

\* A variant of FixReturn that leaves the loop with cells still pending.
FixReturnEarly ==
    /\ pc = "fix"
    /\ pc' = "fixed"
    /\ UNCHANGED <<wiring, cellState, dirtyCells, setOrder, complete, stack,
                   retval, seedVal, diff, entry, lastCall>>

\* The loop ends and the diff is returned.
FixReturn ==
    /\ pc = "fix"
    /\ Len(dirtyCells) = 0
    /\ pc' = "fixed"
    /\ UNCHANGED <<wiring, cellState, dirtyCells, setOrder, complete, stack,
                   retval, seedVal, diff, entry, lastCall>>

\* unfixArcConsistency(diff) on the diff just returned.
Unfix ==
    /\ pc = "fixed"
    /\ domain' = unfixArcConsistency(domain, diff)
    /\ pc' = "unfixed"
    /\ UNCHANGED <<wiring, value, given, dirtyCells, setOrder, complete, stack,
                   retval, seedVal, diff, entry, lastCall>>

\* fixArcConsistency is called once more right after it returned, nothing
\* having been appended to dirtyCells in between.
AgainCall == [NoCall EXCEPT !.op = "fixArcConsistency again"]
FixAgain ==
    /\ pc = "fixed"
    /\ lastCall # AgainCall
    /\ pc' = "fix"
    /\ diff' = EmptyDiff
    /\ entry' = [domain |-> domain, value |-> value, given |-> given]
    /\ lastCall' = AgainCall
    /\ UNCHANGED <<wiring, cellState, dirtyCells, setOrder, complete, stack,
                   retval, seedVal>>

NextFix ==
    \/ \E cell \in Cell : CallerAppend(cell)
    \/ FixCall
    \/ FixStep
    \/ FixReturn
    \/ FixAgain
    \/ Unfix

SpecFix == InitFix /\ [][NextFix]_vars

\* fixArcConsistency on the queue the parser left.  The loop runs without
\* suspension: an iteration that can be taken is taken.
NextFixLoop ==
    \/ FixCall
    \/ FixStep
    \/ FixReturn
    \/ Unfix

SpecFixFair == InitFix /\ [][NextFixLoop]_vars /\ WF_vars(FixStep)

----------------------------------------------------------------------------
(* SpecGen: puzzle.py generatePuzzle and complicatePuzzle *)

\* The columns random.randrange(base) draws for the seeds.
SeedColumns == {0, 2}

\* `val not in cell.row | cell.column | cell.block` (line 253) looks the
\* number val up in a set of Cell objects.  A Cell defines neither __eq__
\* nor __hash__: no Cell equals a number.
CellEqualsNumber(cell, number) == FALSE
NotInGroups(val, cell) ==
    \A member \in Peers(cell) \cup {cell} : ~CellEqualsNumber(member, val)

\* generatePuzzle, lines 238-242: an empty grid of cells created with
\* given = True.
InitGen ==
    /\ rows = FullRows
    /\ columns = FullColumns
    /\ blocks = FullBlocks
    /\ cellRow = [c \in Cell |-> RowOf(c)]
    /\ cellColumn = [c \in Cell |-> ColOf(c)]
    /\ cellBlock = [c \in Cell |-> BlockOf(c)]
    /\ value = [c \in Cell |-> None]
    /\ given = [c \in Cell |-> TRUE]
    /\ domain = [c \in Cell |-> NewDomain(None)]
    /\ dirtyCells = <<>>
    /\ setOrder \in SetOrders
    /\ complete = FALSE
    /\ pc = "seed"
    /\ stack = <<>>
    /\ retval = NoneRet
    /\ seedVal = 0
    /\ diff = EmptyDiff
    /\ entry = [domain |-> domain, value |-> value, given |-> given]
    /\ lastCall = NoCall

\* Lines 245-258: the value seedVal is put at a random column of the row
\* seedVal.  A draw that fails the test of line 253 is repeated.
GenSeed(col) ==
    LET val  == seedVal
        cell == cellAt(val, col)
    IN  /\ pc = "seed"
        /\ seedVal < Base
        /\ IF NotInGroups(val, cell)
           THEN /\ value' = [value EXCEPT ![cell] = val]
                /\ domain' = [domain EXCEPT ![cell] = {val}]
                /\ dirtyCells' = Append(dirtyCells, cell)
                /\ seedVal' = seedVal + 1
           ELSE UNCHANGED <<value, domain, dirtyCells, seedVal>>
        /\ UNCHANGED <<wiring, given, setOrder, pc, complete, stack, retval,
                       diff, entry, lastCall>>

\* Lines 261-264: the seeded grid is solved in single-solution mode and
\* the value solve returns is passed to complicatePuzzle, whose first
\* statement reads grid.base: an AttributeError when solve returned None.
\* The call passes a monitor keyword, as the call in stevoku.py does:
\* GenSolve is the call made to a csp.solve that takes the keyword and
\* solves as lines 45-51 do; GenSolveRaises is the call made to csp.solve
\* as line 45 declares it.
GenSolve ==
    /\ pc = "seed"
    /\ seedVal = Base
    /\ \E m \in {solve(domain, value, dirtyCells, FALSE)} :
          /\ domain' = m.domain
          /\ value' = m.value
          /\ dirtyCells' = m.dirtyCells
          /\ retval' = m.retval
          /\ IF m.retval = NoneRet
             THEN /\ pc' = "raised"
                  /\ lastCall' = [NoCall EXCEPT !.op = "complicatePuzzle",
                                                !.raised = "AttributeError"]
             ELSE /\ pc' = "complicate"
                  /\ lastCall' = NoCall
    /\ UNCHANGED <<wiring, given, setOrder, complete, stack, seedVal,
                   diff, entry>>

\* Line 261 against the signature of csp.py line 45, solve(grid,
\* complete=False): the keyword monitor is unexpected, a TypeError.
GenSolveRaises ==
    /\ pc = "seed"
    /\ seedVal = Base
    /\ pc' = "raised"
    /\ lastCall' = [NoCall EXCEPT !.op = "solve", !.raised = "TypeError"]
    /\ UNCHANGED <<wiring, cellState, dirtyCells, setOrder, complete, stack,
                   retval, seedVal, diff, entry>>

\* complicatePuzzle, lines 269-275: a draw of an address one of whose two
\* cells is blank already is repeated (by a recursive call).
GenRedraw(row, col) ==
    LET cell1 == cellAt(row, col)
        cell2 == cellAt(Base - row - 1, Base - col - 1)
    IN  /\ pc = "complicate"
        /\ value[cell1] = None \/ value[cell2] = None
        /\ UNCHANGED vars

\* len(solutions) of line 292, or the exception it raises.
LenOf(solutions) ==
    CASE solutions.kind = "List" -> [raised |-> "", len |-> Len(solutions.items)]
      [] solutions.kind = "None" -> [raised |-> "TypeError", len |-> None]
      [] solutions.kind = "Grid" -> [raised |-> "AttributeError", len |-> None]

\* The cells of lines 278-281 after their reset.
ResetValue(val, cells) == [c \in Cell |-> IF c \in cells THEN None ELSE val[c]]
ResetDomain(dom, cells) == [c \in Cell |-> IF c \in cells THEN Val ELSE dom[c]]

\* complicatePuzzle, lines 277-295: the two cells are reset, every cell
\* that still holds a value is flagged dirty, the grid is rebalanced and
\* its solutions are enumerated; the rebalancing is undone.  The grid is
\* returned when the enumeration does not have exactly one entry, and
\* complicatePuzzle is called again when it has.
GenComplicate(row, col) ==
    /\ pc = "complicate"
    /\ \E cell1 \in {cellAt(row, col)},
          cell2 \in {cellAt(Base - row - 1, Base - col - 1)} :
          /\ value[cell1] # None /\ value[cell2] # None
          /\ \E val1 \in {ResetValue(value, {cell1, cell2})},
                dom1 \in {ResetDomain(domain, {cell1, cell2})} :
             \E deps \in {UNION {rows[r] : r \in Index} \ unsolvedCells(val1)} :
             \E f \in {fixArcConsistency(dom1,
                           dirtyCells \o OrderedCells(deps))} :
             \E m \in {solve(f.domain, val1, f.dirtyCells, TRUE)} :
             \E n \in {LenOf(m.retval)} :
                /\ given' = [c \in Cell |->
                                IF c \in {cell1, cell2} THEN FALSE
                                ELSE given[c]]
                /\ value' = m.value
                /\ domain' = unfixArcConsistency(m.domain, f.diff)
                /\ dirtyCells' = m.dirtyCells
                /\ retval' = m.retval
                /\ lastCall' = [NoCall EXCEPT !.op = "complicatePuzzle",
                                              !.raised = n.raised]
                /\ pc' = IF n.raised # "" THEN "raised"
                         ELSE IF n.len # 1 THEN "returned"
                         ELSE "complicate"
    /\ UNCHANGED <<wiring, setOrder, complete, stack, seedVal, diff, entry>>

NextGen ==
    \/ \E col \in SeedColumns : GenSeed(col)
    \/ GenSolve
    \/ GenSolveRaises
    \/ \E row \in Index, col \in Index : GenRedraw(row, col)
    \/ \E row \in Index, col \in Index : GenComplicate(row, col)

SpecGen == InitGen /\ [][NextGen]_vars

----------------------------------------------------------------------------
(* What the claims speak of *)

\* A group holds every value exactly once as a cell value.
GroupComplete(group) ==
    \A v \in Val : Cardinality({c \in group : value[c] = v}) = 1

\* Every row, column and block of the grid holds every value exactly once.
GridSolved ==
    \A i \in Index :
        /\ GroupComplete(rows[i])
        /\ GroupComplete(columns[i])
        /\ GroupComplete(blocks[i])

\* The values left for a blank cell by the values of its peers.
Candidates(val, c) == Val \ {val[p] : p \in Peers(c)}

\* No two cells of a row, column or block hold the same value.
Consistent(val) ==
    \A c \in Cell : val[c] # None => \A p \in Peers(c) : val[p] # val[c]

\* The blank cell of a consistent assignment that is filled next: one with
\* the fewest candidates.
NextBlank(val) ==
    LET blank == {c \in Cell : val[c] = None}
    IN  CHOOSE c \in blank :
            \A x \in blank :
                Cardinality(Candidates(val, c))
                    <= Cardinality(Candidates(val, x))

\* The number of solved grids that extend the assignment val.
RECURSIVE CountExtensions(_)
RECURSIVE CountWith(_, _, _)
CountExtensions(val) ==
    IF \A c \in Cell : val[c] # None THEN 1
    ELSE CountWith(val, NextBlank(val), Candidates(val, NextBlank(val)))
CountWith(val, c, values) ==
    IF values = {} THEN 0
    ELSE LET v == CHOOSE x \in values : TRUE
         IN  CountExtensions([val EXCEPT ![c] = v])
                + CountWith(val, c, values \ {v})

NumSolutions(val) == IF Consistent(val) THEN CountExtensions(val) ELSE 0

\* Some solved grid extends the assignment val.
RECURSIVE Extensible(_)
Extensible(val) ==
    IF \A c \in Cell : val[c] # None THEN TRUE
    ELSE \E v \in Candidates(val, NextBlank(val)) :
            Extensible([val EXCEPT ![NextBlank(val)] = v])

Solvable(val) == Consistent(val) /\ Extensible(val)

\* Two given cells of one row hold the same value.
RowClash ==
    \E c1 \in Cell, c2 \in Cell :
        /\ c1 # c2
        /\ given[c1] /\ given[c2]
        /\ cellRow[c1] = cellRow[c2]
        /\ value[c1] = value[c2]

----------------------------------------------------------------------------
(* The claims *)

\* C1: when solve in single-solution mode returns a grid (not None), every
\* row, column and block of that grid holds each value of [0, base) exactly
\* once.
C1_Soundness ==
    (pc = "done" /\ ~complete /\ retval # NoneRet) => GridSolved

\* C2: solve(grid, complete=True) returns a list whose entries are the
\* solutions of the puzzle, each once: a list of grids with as many entries
\* as the puzzle the parser read has solutions.
C2_CompleteEnumeration ==
    (pc = "done" /\ complete) =>
        /\ retval.kind = "List"
        /\ \A i \in DOMAIN retval.items : retval.items[i] = GridRet
        /\ Len(retval.items) = NumSolutions(entry.value)

\* C3: in complete mode, solve returns the empty list (not None) on a grid
\* that has no solution.
C3_UnsatisfiableGivesEmptyList ==
    (pc = "done" /\ complete /\ retval # ListRet(<<>>)) =>
        Solvable(entry.value)

\* C4: after fixArcConsistency and unfixArcConsistency of the diff it
\* returned, every cell's domain is the set it was before the call.
C4_DiffRoundTrip == (pc = "unfixed") => (domain = entry.domain)

\* C4, witness: a pass that removed values has been undone.
C4_Witness == pc = "unfixed" /\ diff # EmptyDiff

\* C5: solve in single-solution mode returns None on every grid in which
\* two given cells of one row hold the same value.
C5_RowClashGivesNone ==
    (pc = "done" /\ ~complete /\ RowClash) => (retval = NoneRet)

C7_OneCellPerAddress ==
    /\ \A r \in Index, k \in Index :
          Cardinality(rows[r] \cap columns[k]) <= 1
    /\ \A i \in Index :
          /\ Cardinality(rows[i]) <= Base
          /\ Cardinality(columns[i]) <= Base
          /\ Cardinality(blocks[i]) <= Base

\* C8: blockAt(row, col) signals an error when row or col is outside
\* [0, base), and otherwise returns the block
\* blockSize*(row div blockSize) + (col div blockSize).
C8_BlockAtContract ==
    (lastCall.op = "blockAt") =>
        IF lastCall.row \in Index /\ lastCall.column \in Index
        THEN /\ lastCall.raised = ""
             /\ lastCall.block = BlockBase * (lastCall.row \div BlockBase)
                                    + (lastCall.column \div BlockBase)
        ELSE lastCall.raised # ""

\* C9, as claimed: a cell whose value is set has the domain {value}.
C9_ValueIsDomain ==
    \A c \in Cell : value[c] # None => domain[c] = {value[c]}

\* C9, as amended: a cell whose value is set has a domain that holds no
\* other value: it is {value}, or empty once propagation removed the value
\* because a peer is forced to it.
C9_ValueBoundsDomain ==
    \A c \in Cell : value[c] # None => domain[c] \subseteq {value[c]}

\* C9, witness: the search returned a grid in which it committed a value.
C9_Witness ==
    /\ pc = "done"
    /\ retval = GridRet
    /\ \E c \in Cell : ~given[c] /\ value[c] # None

\* C10: fixArcConsistency terminates: once it is called, the dirty queue
\* becomes empty.
C10_FixTerminates == (pc = "fix") ~> (pc = "fix" /\ dirtyCells = <<>>)

\* C10, witness: the queue is empty after a pass in which cells lost values
\* and were enqueued again.
C10_Witness == pc = "fix" /\ dirtyCells = <<>> /\ diff # EmptyDiff

\* C11: a second fixArcConsistency call made right after the first one
\* returned, no cell having been made dirty in between, returns an empty
\* diff and changes no domain.
C11_FixIdempotent ==
    (lastCall = AgainCall /\ pc \in {"fix", "fixed"}) =>
        /\ diff = EmptyDiff
        /\ domain = entry.domain
        /\ dirtyCells = <<>>

\* C11, witness: the second call has returned, after a first call that
\* took values from blank cells.
C11_Witness ==
    /\ lastCall = AgainCall
    /\ pc = "fixed"
    /\ \E c \in Cell : value[c] = None /\ domain[c] # Val

\* C12, as claimed: in an iteration of fixArcConsistency a value v leaves
\* the domain of a cell only if the domain of the popped dirty cell is
\* exactly {v}; a dirty cell with an empty domain removes nothing.
C12_NakedSingle ==
    [][(pc = "fix" /\ pc' = "fix") =>
          \A c \in Cell : \A v \in domain[c] \ domain'[c] :
              domain[Head(dirtyCells)] = {v}]_vars

\* C12, as amended: in an iteration of fixArcConsistency a value v leaves
\* the domain of a cell c only if c is a peer of the popped dirty cell d
\* and d's domain without v is empty, i.e. d's domain is {v} or is empty;
\* a dirty cell with two or more values removes nothing, and a dirty cell
\* with an empty domain removes every value of every peer.
C12_ForcedRemoval ==
    [][(pc = "fix" /\ pc' = "fix") =>
          /\ \A c \in Cell : \A v \in domain[c] \ domain'[c] :
                /\ c \in Peers(Head(dirtyCells))
                /\ domain[Head(dirtyCells)] \subseteq {v}
          /\ domain[Head(dirtyCells)] = {} =>
                \A c \in Peers(Head(dirtyCells)) : domain'[c] = {}]_vars

\* C12, witness: a cell holding a value lost it to a clash, was popped
\* with its empty domain (it is no longer pending) and a blank peer has
\* lost every value.
C12_Witness ==
    /\ pc = "fix"
    /\ \E d \in Cell :
          /\ value[d] # None
          /\ domain[d] = {}
          /\ d \notin Range(dirtyCells)
          /\ \E c \in Peers(d) : value[c] = None /\ Len(diff[c]) = Base

\* The innermost active frame of _recSolve.
Top == stack[Len(stack)]

\* C13: when a later candidate of a search step is about to be committed,
\* the propagation of the candidates before it has been reversed: every
\* cell other than the chosen one has the domain it had just before the
\* first candidate was committed.
C13_UndoBetweenCandidates ==
    (/\ pc = "loop"
     /\ Top.next > 1
     /\ Top.next <= Len(Top.checkList)) =>
        \A c \in Cell \ {Top.cell} : domain[c] = Top.firstDomain[c]

\* C14: a search step that returns None in single-solution mode, at line
\* 67 or at line 113, leaves the grid as it found it: every cell has the
\* value and the domain it had when the step was entered, the chosen cell
\* among them, and the dirty queue is empty.
C14_FailureRestores ==
    [][(/\ ~complete
        /\ pc \in {"enter", "loop"}
        /\ pc' = "return"
        /\ retval' = NoneRet) =>
          /\ dirtyCells' = <<>>
          /\ IF pc = "enter"
             THEN domain' = domain /\ value' = value
             ELSE domain' = Top.entryDomain /\ value' = Top.entryValue]_vars

\* C14, witness: solve returned None in single-solution mode on a grid in
\* which no domain is empty, so the outermost step tried its candidates
\* and failed with each.
C14_Witness ==
    /\ pc = "done"
    /\ ~complete
    /\ retval = NoneRet
    /\ \A c \in Cell : domain[c] # {}

C16_QueueUnique ==
    \A i, j \in DOMAIN dirtyCells :
        dirtyCells[i] = dirtyCells[j] => i = j

\* C17: fixArcConsistency never changes the value or the given flag of a
\* cell and never adds a value to a domain: during and after the call every
\* domain is a subset of the domain at the call, and the diff maps each cell
\* to exactly the values removed from it, each listed once.
C17_PropagationFrame ==
    pc \in {"fix", "fixed"} =>
        /\ value = entry.value
        /\ given = entry.given
        /\ \A c \in Cell :
              /\ domain[c] \subseteq entry.domain[c]
              /\ Range(diff[c]) = entry.domain[c] \ domain[c]
              /\ Len(diff[c]) = Cardinality(Range(diff[c]))

\* C17, witness: the call has returned after removing two or more values
\* from one cell and values from several cells.
C17_Witness ==
    /\ pc = "fixed"
    /\ dirtyCells = <<>>
    /\ \E c \in Cell : Len(diff[c]) >= BlockBase
    /\ Cardinality({c \in Cell : diff[c] # <<>>}) > BlockBase

\* The nesting of the search steps: each frame's cell was unsolved when
\* solve was entered and when the frame was, each frame was entered with
\* fewer unsolved cells than the one below it, and so is the step about to
\* be entered; there are no more frames than cells unsolved at entry.
C18_Nesting ==
    pc \in {"enter", "loop", "return"} =>
        /\ Len(stack) <= Cardinality(unsolvedCells(entry.value))
        /\ \A i \in DOMAIN stack :
              /\ entry.value[stack[i].cell] = None
              /\ stack[i].entryValue[stack[i].cell] = None
              /\ i < Len(stack) =>
                    Cardinality(unsolvedCells(stack[i + 1].entryValue))
                        < Cardinality(unsolvedCells(stack[i].entryValue))
        /\ (pc = "enter" /\ stack # <<>>) =>
              Cardinality(unsolvedCells(value))
                  < Cardinality(unsolvedCells(Top.entryValue))

\* C18: every nested search step has strictly fewer unsolved cells than its
\* caller, the number of nested value commitments never exceeds the number
\* of cells unsolved at entry to solve, and solve terminates in both modes.
C18_BoundedAndTerminates == []C18_Nesting /\ <>(pc = "done")

\* C18, witness: solve has returned a list in complete mode from a grid
\* with every cell unsolved at entry.
C18_Witness ==
    /\ pc = "done"
    /\ complete
    /\ unsolvedCells(entry.value) = Cell
    /\ retval.kind = "List"

\* C19: when solve in single-solution mode returns a solution, each cell
\* that had a value at entry has the same value and the same given flag in
\* the returned grid; the search commits values only to cells that were
\* unsolved at entry.
C19_GivensPreserved ==
    /\ (pc = "done" /\ ~complete /\ retval = GridRet) =>
          \A c \in Cell :
              entry.value[c] # None =>
                  value[c] = entry.value[c] /\ given[c] = entry.given[c]
    /\ (~complete /\ pc \in {"enter", "loop", "return"}) =>
          \A i \in DOMAIN stack : entry.value[stack[i].cell] = None

\* C19, witness: solve returned the grid in single-solution mode, from a
\* file with MaxGivens givens, all cells now holding a value.
C19_Witness ==
    /\ pc = "done"
    /\ ~complete
    /\ retval = GridRet
    /\ Cardinality({c \in Cell : entry.value[c] # None}) = MaxGivens
    /\ unsolvedCells(value) = {}

============================================================================
